---- MODULE Spec2Model ----
(***************************************************************************)
(* create-ai-kit: the template reconciliation run of the CLI (runInit).    *)
(*                                                                         *)
(* A target project holds destination files, conflict siblings (".new"),   *)
(* a cursor directory and the manifest file .ai-kit-manifest.json.  A run  *)
(* of the CLI resolves the cursor directory, loads the manifest, decides   *)
(* per template file what to do, applies the writes one by one and writes  *)
(* the manifest.  Between runs the user edits files, removes or damages    *)
(* the manifest, or installs a newer release of the package.  After the   *)
(* manifest a run updates .gitignore and package.json; what these two      *)
(* files hold is an input of those steps.                                  *)
(*                                                                         *)
(* Paths are sequences of segments.  A file content is a record naming    *)
(* who wrote it; the MD5 digest is an injective map on contents.           *)
(*                                                                         *)
(* The later sections model, each with its own variables and its own       *)
(* specification, the pieces of the kit that the run model abstracts or    *)
(* that are programs of their own: the destination path as a string        *)
(* (SpecMap), the choice of the cursor directory (SpecDir), the age of a   *)
(* @docs-update marker (SpecMarker), runs repeated after a failure         *)
(* (SpecRerun), two cursor directories in one project (SpecSwitch), the    *)
(* lock of placeholder-check.js (SpecLock) and the scripts added to        *)
(* package.json (SpecPkg).                                                 *)
(***************************************************************************)
EXTENDS Integers, Sequences, FiniteSets, TLC

VARIABLES
  templateTree,      \* filesToProcess: template-relative paths in walk order
  pkgVersion,        \* pkg.version of the installed release (its templates)
  rootExists,        \* projectRoot exists
  cursorExists,      \* <projectRoot>/.cursor exists
  files,             \* destination / sibling path -> content or Absent
  manifestFile,      \* content of .ai-kit-manifest.json
  pc,                \* position of the process in runInit
  options,           \* options of the current run
  cursorDirName,     \* the resolved cursor directory name
  safeUpgradeWithoutManifest,
  manifestBaseline,  \* parsed manifest or Null
  manifest,          \* manifest.files being built by the run
  creations, updates, newFiles, skips,
  pending,           \* writes of the apply phase not yet attempted
  criticalFailures,
  optionalFailures,
  manifestWrites,    \* calls of fs.writeFileSync(manifestPath, ...) in this run
  auxWritten,        \* auxiliary files (.gitignore, package.json) this run has written
  exitCode,
  result,            \* how the run ended
  toolWrote,         \* paths some run has written (history)
  pre,               \* target state when the run started (history)
  lastRun,           \* last successful real run with nothing changed since (history)
  prevRun,           \* lastRun as it was when the current run started (history)
  nfail,             \* write failures injected so far
  walkedRel,         \* a template-relative path string produced by walk()
  walkedDir,         \* the cursor directory name the path is mapped under
  mappedRel,         \* targetRelPath computed for walkedRel, or NoString
  resolveIn,         \* what resolveCursorDirName reads: option, environment, disk
  resolveOut,        \* the resolved name and the directories created since
  markerIn,          \* a dated @docs-update marker and the day it is checked
  markerOut,         \* what check-markers and the two ESLint rules report for it
  owed,              \* what the last run left unwritten, with its options (history)
  lockFile,          \* .ai-kit-placeholder-check.lock: its writer and age, or NoLock
  invocation,        \* per placeholder-check process: position, exit status, starts
  removals,          \* the unlinks of the lock file so far (history)
  wentStale,         \* some lock file has outlived LOCK_TIMEOUT_MS (history)
  packageJson,       \* package.json: its scripts object and how often it was written
  pkgBefore          \* the scripts object the last update read (history)

diskVars == <<rootExists, cursorExists, files, manifestFile>>
runVars == <<options, cursorDirName, safeUpgradeWithoutManifest, manifestBaseline, manifest,
             creations, updates, newFiles, skips, pending, criticalFailures,
             optionalFailures, exitCode, result, pre, prevRun>>
installVars == <<templateTree, pkgVersion, rootExists, cursorExists, files, manifestFile,
                 pc, options, cursorDirName, safeUpgradeWithoutManifest, manifestBaseline,
                 manifest,
                 creations, updates, newFiles, skips, pending, criticalFailures,
                 optionalFailures, manifestWrites, auxWritten,
                 exitCode, result, toolWrote, pre, lastRun, prevRun, nfail>>

\* the state of the other programs and helpers of the kit, which a run of
\* runInit as modelled below leaves alone
mapVars == <<walkedRel, walkedDir, mappedRel>>
dirVars == <<resolveIn, resolveOut>>
markerVars == <<markerIn, markerOut>>
lockVars == <<lockFile, invocation, removals, wentStale>>
pkgVars == <<packageJson, pkgBefore>>
sideVars == <<mapVars, dirVars, markerVars, owed, lockVars, pkgVars>>

vars == <<installVars, sideVars>>

\* no string
NoString == <<"(none)">>

MapIdle == walkedRel = NoString /\ walkedDir = "" /\ mappedRel = NoString

\* resolveCursorDirName has not returned
NoResolve == [name |-> NoString, created |-> {}, applied |-> FALSE]

NoResolveIn == [cursorDir |-> <<>>, env |-> <<>>, defaultConfig |-> FALSE,
                fallbackConfig |-> FALSE, dryRun |-> FALSE, cursorDirState |-> "absent"]

DirIdle == resolveIn = NoResolveIn /\ resolveOut = NoResolve

\* no marker has been checked
NoStatus == [cli |-> "", expiry |-> "", expiring |-> ""]

NoMarker == [age |-> 0, shift |-> 0]

MarkerIdle == markerIn = NoMarker /\ markerOut = NoStatus

\* the last run left nothing unwritten
NothingOwed == [options |-> [force |-> FALSE, dryRun |-> FALSE, yes |-> FALSE,
                             cursorDir |-> ""],
                writes |-> {}]

\* the placeholder-check processes
Invocations == {"first", "second"}

NoLock == [owner |-> "", fresh |-> FALSE]

NotStarted == [pc |-> "none", status |-> 0, starts |-> 0]

LockIdle ==
  /\ lockFile = NoLock
  /\ invocation = [p \in Invocations |-> NotStarted]
  /\ removals = {}
  /\ wentStale = FALSE

\* no scripts object has been read
NotRead == [read |-> FALSE, scripts |-> <<>>]

PkgIdle == packageJson = [scripts |-> <<>>, writes |-> 0] /\ pkgBefore = NotRead

\* every helper but the named one is at rest
SideIdleBut(helper) ==
  /\ IF helper = "map" THEN TRUE ELSE MapIdle
  /\ IF helper = "dir" THEN TRUE ELSE DirIdle
  /\ IF helper = "marker" THEN TRUE ELSE MarkerIdle
  /\ IF helper = "rerun" THEN TRUE ELSE owed = NothingOwed
  /\ IF helper = "lock" THEN TRUE ELSE LockIdle
  /\ IF helper = "pkg" THEN TRUE ELSE PkgIdle

SideUnchangedBut(helper) ==
  /\ IF helper = "map" THEN TRUE ELSE UNCHANGED mapVars
  /\ IF helper = "dir" THEN TRUE ELSE UNCHANGED dirVars
  /\ IF helper = "marker" THEN TRUE ELSE UNCHANGED markerVars
  /\ IF helper = "rerun" THEN TRUE ELSE UNCHANGED owed
  /\ IF helper = "lock" THEN TRUE ELSE UNCHANGED lockVars
  /\ IF helper = "pkg" THEN TRUE ELSE UNCHANGED pkgVars

SideIdle == SideIdleBut("")

----------------------------------------------------------------------------
(* Bounds *)

MaxVersion == 2

MaxFailures == 1

----------------------------------------------------------------------------
(* Values *)

\* the bytes of templates/<relPath> as shipped by release v
TemplateContent(relPath, v) == [by |-> "template", of |-> relPath, v |-> v]

\* the bytes a user writes into the file at path p
UserContent(p) == [by |-> "user", of |-> p, v |-> 0]

\* the empty object {}
EmptyFiles == [p \in {} |-> {}]

Put(m, k, val) == [x \in DOMAIN m \cup {k} |-> IF x = k THEN val ELSE m[x]]

NoManifest == [state |-> "absent", version |-> 0, files |-> EmptyFiles]

\* a manifest file that JSON.parse rejects
CorruptManifest == [state |-> "corrupt", version |-> 0, files |-> EmptyFiles]

\* the manifest file opened for writing (truncated) and not yet written
TruncatedManifest == [state |-> "truncated", version |-> 0, files |-> EmptyFiles]

ManifestDoc(version, entries) == [state |-> "ok", version |-> version, files |-> entries]

DEFAULT_CURSOR_DIR == ".cursor"

FALLBACK_CURSOR_DIR == "cursor-copy"

\* the template tree of the package, in readdir order
ShippedTree == << <<"AGENTS.md">>, <<"_cursor", "ai-kit.config.json">> >>

\* a template tree holding both the renamed file and its target name
CollidingTree == << <<"scripts", "file-doc-map.json">>,
                    <<"scripts", "file-doc-map.template.json">> >>

\* a template tree with a file outside the cursor directory that is not on the
\* preserve list
DocsTree == << <<"docs", "README.md">>, <<"_cursor", "ai-kit.config.json">> >>

\* a template tree of one file
ConfigTree == << <<"_cursor", "ai-kit.config.json">> >>

----------------------------------------------------------------------------
(* Pure helpers of the CLI *)

calculateChecksum(content) == [md5 |-> content]

Last(path) == path[Len(path)]

ReplaceLast(path, seg) == [path EXCEPT ![Len(path)] = seg]

\* targetRelPath: "_cursor" -> cursor dir, file-doc-map.template.json -> file-doc-map.json.
\* The source tests the path string (startsWith, includes); on the trees modelled
\* here, where "_cursor" only occurs as a whole first segment and the map file
\* name as a whole last segment, that is the same as testing the segments.
TargetRelPath(relPath, dirName) ==
  LET aliased == IF relPath[1] = "_cursor"
                 THEN [relPath EXCEPT ![1] = dirName]
                 ELSE relPath
  IN IF Last(aliased) = "file-doc-map.template.json"
     THEN ReplaceLast(aliased, "file-doc-map.json")
     ELSE aliased

\* the template written over the destination itself
SiblingInPlace(targetRelPath) == targetRelPath

\* targetRelPath + '.new'
SiblingPath(targetRelPath) == Append(targetRelPath, ".new")

preserveList(dirName) ==
  { <<"AGENTS.md">>, <<dirName, "rules", "main.mdc">>, <<dirName, "HYDRATE.md">> }

EndsWith(path, suffix) ==
  /\ Len(suffix) <= Len(path)
  /\ SubSeq(path, Len(path) - Len(suffix) + 1, Len(path)) = suffix

IsPreserved(targetRelPath, dirName) ==
  \E p \in preserveList(dirName) : EndsWith(targetRelPath, p)

\* safe-upgrade mode not taken into account
UserModifiedByBaselineOnly(hasBaseline, lastChecksum, currentChecksum, safeUpgrade) ==
  hasBaseline /\ lastChecksum # currentChecksum

\* userModified, source lines 524-528
UserModified(hasBaseline, lastChecksum, currentChecksum, safeUpgrade) ==
  \/ hasBaseline /\ lastChecksum # currentChecksum
  \/ ~hasBaseline /\ safeUpgrade

\* the skip of unchanged files left out
NeverMatches(currentChecksum, templateChecksum) == FALSE

\* source line 518
MatchesTemplate(currentChecksum, templateChecksum) == currentChecksum = templateChecksum

\* the template checksum recorded for a preserved file
PreservedEntryOfTemplate(currentChecksum, templateChecksum) == templateChecksum

\* the manifest entry of a preserved file, source lines 508-509
PreservedEntry(currentChecksum, templateChecksum) == currentChecksum

\* overwriting without --force
OverwriteAlways(force, safeUpgrade) == TRUE

\* the branch taken at source line 530
OverwriteMode(force, safeUpgrade) == force \/ safeUpgrade

\* a planned write carrying a checksum of other bytes than its content
PlannedWriteOfOtherBytes(targetRelPath, templateContent, templateChecksum) ==
  [path |-> targetRelPath, content |-> templateContent,
   checksum |-> calculateChecksum(UserContent(targetRelPath))]

\* the element pushed on updates or creations, source lines 538-542 and 555
PlannedWrite(targetRelPath, templateContent, templateChecksum) ==
  [path |-> targetRelPath, content |-> templateContent, checksum |-> templateChecksum]

----------------------------------------------------------------------------
(* The decision loop, source lines 466-557 *)

EmptyPlan(entries) ==
  [creations |-> <<>>, updates |-> <<>>, newFiles |-> <<>>, skips |-> <<>>,
   manifest |-> entries]

\* one iteration of the loop over filesToProcess
DecideOne(acc, relPath, dirName, version, disk, baseline, force, safeUpgrade) ==
  LET targetRelPath == TargetRelPath(relPath, dirName)
      templateContent == TemplateContent(relPath, version)
      templateChecksum == calculateChecksum(templateContent)
      exists == targetRelPath \in DOMAIN disk
      currentChecksum == calculateChecksum(disk[targetRelPath])
      hasBaseline == targetRelPath \in DOMAIN baseline
      lastChecksum == baseline[targetRelPath]
  IN IF IsPreserved(targetRelPath, dirName) /\ exists
     THEN [acc EXCEPT !.skips = Append(@, [path |-> targetRelPath, reason |-> "Preserved"]),
                      !.manifest = Put(@, targetRelPath,
                                       PreservedEntry(currentChecksum, templateChecksum))]
     ELSE IF ~exists
     THEN [acc EXCEPT !.creations =
             Append(@, PlannedWrite(targetRelPath, templateContent, templateChecksum))]
     ELSE IF MatchesTemplate(currentChecksum, templateChecksum)
     THEN [acc EXCEPT !.manifest = Put(@, targetRelPath, templateChecksum)]
     ELSE IF OverwriteMode(force, safeUpgrade)
     THEN IF UserModified(hasBaseline, IF hasBaseline THEN lastChecksum ELSE currentChecksum,
                          currentChecksum, safeUpgrade)
          THEN [acc EXCEPT !.newFiles =
                  Append(@, [path |-> SiblingPath(targetRelPath), content |-> templateContent])]
          ELSE [acc EXCEPT !.updates =
                  Append(@, PlannedWrite(targetRelPath, templateContent, templateChecksum))]
     ELSE IF hasBaseline
     THEN [acc EXCEPT !.manifest = Put(@, targetRelPath, currentChecksum)]
     ELSE acc

RECURSIVE DecideAll(_, _, _, _, _, _, _, _, _)
DecideAll(acc, tree, i, dirName, version, disk, baseline, force, safeUpgrade) ==
  IF i > Len(tree) THEN acc
  ELSE DecideAll(DecideOne(acc, tree[i], dirName, version, disk, baseline,
                           force, safeUpgrade),
                 tree, i + 1, dirName, version, disk, baseline, force, safeUpgrade)

----------------------------------------------------------------------------
(* The target directory *)

Destinations(tree) == { TargetRelPath(tree[i], DEFAULT_CURSOR_DIR) : i \in 1..Len(tree) }

UnderCursor(path) == path[1] = DEFAULT_CURSOR_DIR

Snapshot == [rootExists |-> rootExists, cursorExists |-> cursorExists,
             files |-> files, manifestFile |-> manifestFile, toolWrote |-> toolWrote]

NoSnapshot == [rootExists |-> FALSE, cursorExists |-> FALSE,
               files |-> EmptyFiles, manifestFile |-> NoManifest, toolWrote |-> {}]

NoOptions == [force |-> FALSE, dryRun |-> FALSE, yes |-> FALSE, cursorDir |-> ""]

NoRun == [ok |-> FALSE, force |-> FALSE]

\* no run of runInit has started
RunIdle ==
  /\ pkgVersion = 1
  /\ manifestFile = NoManifest
  /\ pc = "idle"
  /\ options = NoOptions
  /\ cursorDirName = DEFAULT_CURSOR_DIR
  /\ safeUpgradeWithoutManifest = FALSE
  /\ manifestBaseline = EmptyFiles
  /\ manifest = EmptyFiles
  /\ creations = <<>> /\ updates = <<>> /\ newFiles = <<>> /\ skips = <<>>
  /\ pending = <<>>
  /\ criticalFailures = <<>>
  /\ optionalFailures = <<>>
  /\ manifestWrites = 0
  /\ auxWritten = {}
  /\ exitCode = 0
  /\ result = ""
  /\ toolWrote = {}
  /\ pre = NoSnapshot
  /\ lastRun = NoRun
  /\ prevRun = NoRun
  /\ nfail = 0

InitTarget(tree) ==
  /\ templateTree = tree
  /\ rootExists \in BOOLEAN
  /\ \E edited \in SUBSET Destinations(tree) :
       /\ rootExists \/ edited = {}
       /\ files = [p \in edited |-> UserContent(p)]
  /\ cursorExists \in BOOLEAN
  /\ cursorExists => rootExists
  /\ (\E p \in DOMAIN files : UnderCursor(p)) => cursorExists
  /\ RunIdle
  /\ SideIdle

\* an empty directory in which runInit is not run
NoTarget ==
  /\ templateTree = ShippedTree
  /\ rootExists = FALSE
  /\ cursorExists = FALSE
  /\ files = EmptyFiles
  /\ RunIdle

Init == InitTarget(ShippedTree)

InitCollide == InitTarget(CollidingTree)

InitDocs == InitTarget(DocsTree)

InitDelete == InitTarget(ConfigTree)

----------------------------------------------------------------------------
(* runInit, step by step *)

\* resolveCursorDirName with AI_KIT_CURSOR_DIR unset, an option that is a plain
\* name and a writable project: the name, and whether isWritableDir ran
\* ensureDirSync on it
resolveCursorDirName(cursorDirOpt, dryRun, disk) ==
  IF cursorDirOpt # ""
  THEN [name |-> cursorDirOpt, ensured |-> FALSE]
  ELSE IF <<DEFAULT_CURSOR_DIR, "ai-kit.config.json">> \in DOMAIN disk
  THEN [name |-> DEFAULT_CURSOR_DIR, ensured |-> FALSE]
  ELSE IF <<FALLBACK_CURSOR_DIR, "ai-kit.config.json">> \in DOMAIN disk
  THEN [name |-> FALLBACK_CURSOR_DIR, ensured |-> FALSE]
  ELSE IF dryRun
  THEN [name |-> DEFAULT_CURSOR_DIR, ensured |-> FALSE]
  ELSE [name |-> DEFAULT_CURSOR_DIR, ensured |-> TRUE]

\* the dry-run test at source line 354 left out
CreatesRootAlways(dryRun) == TRUE

\* whether the missing project root is created, source lines 353-360
CreatesRoot(dryRun) == ~dryRun

\* JSON.parse of the manifest file, source lines 385-395
LoadManifest(file) == IF file.state = "ok" THEN file.files ELSE EmptyFiles

\* source line 376
SafeUpgrade(hasCursor, hasManifest, force) == hasCursor /\ ~hasManifest /\ ~force

\* fs.existsSync(cursorDir), source line 374; a directory other than .cursor
\* exists when it holds a file
HasCursor(name, defaultExists, disk) ==
  IF name = DEFAULT_CURSOR_DIR
  THEN defaultExists
  ELSE \E p \in DOMAIN disk : p[1] = name

\* source lines 329-420
Resolve(force, dryRun, yes, cursorDirOpt) ==
  /\ pc = "idle"
  /\ LET r == resolveCursorDirName(cursorDirOpt, dryRun, files)
         hasCursor == HasCursor(r.name, cursorExists \/ r.ensured, files)
         hasManifest == manifestFile.state # "absent"
     IN /\ cursorExists' = (cursorExists \/ r.ensured)
        /\ rootExists' = (rootExists \/ r.ensured \/ CreatesRoot(dryRun))
        /\ cursorDirName' = r.name
        /\ safeUpgradeWithoutManifest' = SafeUpgrade(hasCursor, hasManifest, force)
  /\ options' = [force |-> force, dryRun |-> dryRun, yes |-> yes, cursorDir |-> cursorDirOpt]
  /\ manifestBaseline' = LoadManifest(manifestFile)
  /\ manifest' = LoadManifest(manifestFile)
  /\ pre' = Snapshot
  /\ prevRun' = lastRun
  /\ lastRun' = NoRun
  /\ pc' = "confirm"
  /\ UNCHANGED <<sideVars, templateTree, pkgVersion, files, manifestFile, auxWritten, creations, updates,
                 newFiles, skips, pending, criticalFailures, optionalFailures,
                 manifestWrites, exitCode, result, nfail, toolWrote>>

NeedsConfirm == options.force /\ ~options.yes /\ ~options.dryRun

\* source lines 423-431, answer "y" or no prompt
ConfirmProceed ==
  /\ pc = "confirm"
  /\ pc' = "gather"
  /\ UNCHANGED <<sideVars, templateTree, pkgVersion, diskVars, auxWritten, runVars, manifestWrites, lastRun, nfail,
                 toolWrote>>

\* source lines 427-430, any other answer
ConfirmDeclined ==
  /\ pc = "confirm"
  /\ NeedsConfirm
  /\ pc' = "done"
  /\ exitCode' = 0
  /\ result' = "aborted"
  /\ UNCHANGED <<sideVars, templateTree, pkgVersion, diskVars, auxWritten, options, cursorDirName,
                 safeUpgradeWithoutManifest,
                 manifestBaseline, manifest, creations, updates, newFiles, skips,
                 pending, criticalFailures, optionalFailures, manifestWrites, pre, prevRun,
                 lastRun, nfail, toolWrote>>

Tag(kind, items) == [i \in 1..Len(items) |-> [kind |-> kind, item |-> items[i]]]

\* source lines 433-557: walk and the decision loop, every read succeeding
Gather ==
  /\ pc = "gather"
  /\ LET plan == DecideAll(EmptyPlan(manifest), templateTree, 1, cursorDirName, pkgVersion,
                           files, manifestBaseline, options.force,
                           safeUpgradeWithoutManifest)
     IN /\ creations' = plan.creations
        /\ updates' = plan.updates
        /\ newFiles' = plan.newFiles
        /\ skips' = plan.skips
        /\ manifest' = plan.manifest
        /\ pending' = Tag("create", plan.creations) \o Tag("update", plan.updates)
                        \o Tag("new", plan.newFiles)
  /\ pc' = IF options.dryRun THEN "report" ELSE "apply"
  /\ UNCHANGED <<sideVars, templateTree, pkgVersion, diskVars, auxWritten, options, cursorDirName,
                 safeUpgradeWithoutManifest,
                 manifestBaseline, criticalFailures, optionalFailures, manifestWrites,
                 exitCode, result, pre, prevRun, lastRun, nfail, toolWrote>>

\* readdirSync, statSync or readFileSync throws inside walk or the loop: the
\* exception leaves runInit and main().catch exits with status 1
GatherThrows ==
  /\ pc = "gather"
  /\ \E i \in 0..Len(templateTree) :
       /\ pc' = "done"
       /\ exitCode' = 1
       /\ result' = IF i = 0 THEN "root-unreadable" ELSE "file-unreadable"
  /\ UNCHANGED <<sideVars, templateTree, pkgVersion, diskVars, auxWritten, options, cursorDirName,
                 safeUpgradeWithoutManifest,
                 manifestBaseline, manifest, creations, updates, newFiles, skips,
                 pending, criticalFailures, optionalFailures, manifestWrites, pre, prevRun,
                 lastRun, nfail, toolWrote>>

\* source lines 560-565
DryRunReport ==
  /\ pc = "report"
  /\ pc' = "done"
  /\ exitCode' = 0
  /\ result' = "dry-run"
  /\ UNCHANGED <<sideVars, templateTree, pkgVersion, diskVars, auxWritten, options, cursorDirName,
                 safeUpgradeWithoutManifest,
                 manifestBaseline, manifest, creations, updates, newFiles, skips,
                 pending, criticalFailures, optionalFailures, manifestWrites, pre, prevRun,
                 lastRun, nfail, toolWrote>>

\* path.join(projectRoot, f.path), relative to the project root
OutputPath(path) == path

\* the written path recorded in the manifest whatever the loop
EntryAfterAnyWrite(entries, kind, f) == Put(entries, f.path, calculateChecksum(f.content))

\* manifest.files[f.path] = f.checksum in the creation and update loops (source
\* lines 577, 588); the loop over newFiles has no such statement
EntryAfterWrite(entries, kind, f) ==
  IF kind = "new" THEN entries ELSE Put(entries, f.path, f.checksum)

\* fse.outputFileSync succeeds on the head of the pending writes
WriteOk(kind) ==
  /\ pc = "apply"
  /\ pending # <<>>
  /\ Head(pending).kind = kind
  /\ LET f == Head(pending).item
     IN /\ files' = Put(files, OutputPath(f.path), f.content)
        /\ cursorExists' = (cursorExists \/ UnderCursor(OutputPath(f.path)))
        /\ manifest' = EntryAfterWrite(manifest, kind, f)
        /\ toolWrote' = toolWrote \cup {OutputPath(f.path)}
  /\ pending' = Tail(pending)
  /\ UNCHANGED <<sideVars, templateTree, pkgVersion, rootExists, manifestFile, auxWritten, pc, options,
                 cursorDirName, safeUpgradeWithoutManifest, manifestBaseline, creations,
                 updates, newFiles, skips, criticalFailures, optionalFailures,
                 manifestWrites, exitCode, result, pre, prevRun, lastRun, nfail>>

\* fse.outputFileSync throws: recordFailure(criticalFailures, ...)
WriteFails(kind) ==
  /\ pc = "apply"
  /\ pending # <<>>
  /\ Head(pending).kind = kind
  /\ nfail < MaxFailures
  /\ nfail' = nfail + 1
  /\ criticalFailures' = Append(criticalFailures, Head(pending).item.path)
  /\ pending' = Tail(pending)
  /\ UNCHANGED <<sideVars, templateTree, pkgVersion, diskVars, auxWritten, pc, options, cursorDirName,
                 safeUpgradeWithoutManifest, manifestBaseline, manifest, creations,
                 updates, newFiles, skips, optionalFailures, manifestWrites, exitCode,
                 result, pre, prevRun, lastRun, toolWrote>>

\* source lines 573-583
WriteCreation == WriteOk("create") \/ WriteFails("create")

\* source lines 584-594
WriteUpdate == WriteOk("update") \/ WriteFails("update")

\* source lines 595-604
WriteNewFile == WriteOk("new") \/ WriteFails("new")

\* the manifest written at any point of the write loops
ManifestDueAnytime(rest) == TRUE

\* the statement at source line 608 follows the three write loops
ManifestDue(rest) == rest = <<>>

\* fs.writeFileSync(manifestPath, ...) opens the file with flag 'w', which
\* truncates it (source line 608)
OpenManifest ==
  /\ pc = "apply"
  /\ ManifestDue(pending)
  /\ manifestFile' = TruncatedManifest
  /\ manifestWrites' = manifestWrites + 1
  /\ pc' = "manifest"
  /\ UNCHANGED <<sideVars, templateTree, pkgVersion, rootExists, cursorExists, files, auxWritten,
                 runVars, lastRun, nfail, toolWrote>>

\* the open fails: recordFailure(criticalFailures, '.ai-kit-manifest.json', ...)
OpenManifestFails ==
  /\ pc = "apply"
  /\ ManifestDue(pending)
  /\ nfail < MaxFailures
  /\ nfail' = nfail + 1
  /\ manifestWrites' = manifestWrites + 1
  /\ criticalFailures' = Append(criticalFailures, <<".ai-kit-manifest.json">>)
  /\ pc' = "gitignore"
  /\ UNCHANGED <<sideVars, templateTree, pkgVersion, diskVars, auxWritten, options, cursorDirName,
                 safeUpgradeWithoutManifest, manifestBaseline, manifest, creations,
                 updates, newFiles, skips, pending, optionalFailures, exitCode, result,
                 pre, prevRun, lastRun, toolWrote>>

\* ... and then writes JSON.stringify(manifest) into it
WriteManifest ==
  /\ pc = "manifest"
  /\ manifestFile' = ManifestDoc(pkgVersion, manifest)
  /\ pc' = "gitignore"
  /\ UNCHANGED <<sideVars, templateTree, pkgVersion, rootExists, cursorExists, files, auxWritten,
                 runVars, manifestWrites, lastRun, nfail, toolWrote>>

\* source lines 613-632.  What .gitignore holds is an input of the step: the file
\* is created or appended to when an entry is missing ("write"), left alone when
\* --no-gitignore is given or both entries are there ("skip"), or an error is
\* thrown and recorded in optionalFailures ("fail")
UpdateGitignore ==
  /\ pc = "gitignore"
  /\ \E outcome \in {"write", "skip", "fail"} :
       /\ outcome = "fail" => nfail < MaxFailures
       /\ nfail' = IF outcome = "fail" THEN nfail + 1 ELSE nfail
       /\ auxWritten' = IF outcome = "write" THEN auxWritten \cup {<<".gitignore">>}
                        ELSE auxWritten
       /\ optionalFailures' = IF outcome = "fail"
                              THEN Append(optionalFailures, <<".gitignore">>)
                              ELSE optionalFailures
  /\ pc' = "package"
  /\ UNCHANGED <<sideVars, templateTree, pkgVersion, diskVars, options, cursorDirName,
                 safeUpgradeWithoutManifest, manifestBaseline, manifest, creations,
                 updates, newFiles, skips, pending, criticalFailures, manifestWrites,
                 exitCode, result, pre, prevRun, lastRun, toolWrote>>

\* source lines 634-668.  package.json is rewritten when it exists and lacks one of
\* the scripts ("write"), left alone when it is missing or has them all ("skip"),
\* or reading, parsing or writing it throws ("fail")
UpdatePackageJson ==
  /\ pc = "package"
  /\ \E outcome \in {"write", "skip", "fail"} :
       /\ outcome = "fail" => nfail < MaxFailures
       /\ nfail' = IF outcome = "fail" THEN nfail + 1 ELSE nfail
       /\ auxWritten' = IF outcome = "write" THEN auxWritten \cup {<<"package.json">>}
                        ELSE auxWritten
       /\ optionalFailures' = IF outcome = "fail"
                              THEN Append(optionalFailures, <<"package.json">>)
                              ELSE optionalFailures
  /\ pc' = "finish"
  /\ UNCHANGED <<sideVars, templateTree, pkgVersion, diskVars, options, cursorDirName,
                 safeUpgradeWithoutManifest, manifestBaseline, manifest, creations,
                 updates, newFiles, skips, pending, criticalFailures, manifestWrites,
                 exitCode, result, pre, prevRun, lastRun, toolWrote>>

\* optional failures counted as fatal
ExitStatusAnyFailure(critical, optional) ==
  IF critical # <<>> \/ optional # <<>> THEN 1 ELSE 0

\* critical failures not counted as fatal
ExitStatusAlwaysZero(critical, optional) == 0

\* process.exit(1) when criticalFailures is not empty, source lines 670-689
ExitStatus(critical, optional) == IF critical # <<>> THEN 1 ELSE 0

\* source lines 670-692
Finish ==
  /\ pc = "finish"
  /\ pc' = "done"
  /\ exitCode' = ExitStatus(criticalFailures, optionalFailures)
  /\ result' = IF criticalFailures # <<>> THEN "failed" ELSE "success"
  /\ UNCHANGED <<sideVars, templateTree, pkgVersion, diskVars, auxWritten, options, cursorDirName,
                 safeUpgradeWithoutManifest, manifestBaseline, manifest, creations,
                 updates, newFiles, skips, pending, criticalFailures, optionalFailures,
                 manifestWrites, pre, prevRun, lastRun, nfail, toolWrote>>

Running == pc \in {"confirm", "gather", "report", "apply", "manifest", "gitignore",
                    "package", "finish"}

\* the process is terminated from outside in the middle of a run
Kill ==
  /\ Running
  /\ pc' = "killed"
  /\ UNCHANGED <<sideVars, templateTree, pkgVersion, diskVars, auxWritten, runVars, manifestWrites, lastRun, nfail,
                 toolWrote>>

\* the process is gone; its memory with it
ExitRun ==
  /\ pc \in {"done", "killed"}
  /\ pc' = "idle"
  /\ lastRun' = IF pc = "done" /\ result = "success"
                THEN [ok |-> TRUE, force |-> options.force]
                ELSE NoRun
  /\ options' = NoOptions
  /\ cursorDirName' = DEFAULT_CURSOR_DIR
  /\ safeUpgradeWithoutManifest' = FALSE
  /\ manifestBaseline' = EmptyFiles
  /\ manifest' = EmptyFiles
  /\ creations' = <<>> /\ updates' = <<>> /\ newFiles' = <<>> /\ skips' = <<>>
  /\ pending' = <<>>
  /\ criticalFailures' = <<>>
  /\ optionalFailures' = <<>>
  /\ manifestWrites' = 0
  /\ auxWritten' = {}
  /\ exitCode' = 0
  /\ result' = ""
  /\ pre' = NoSnapshot
  /\ prevRun' = NoRun
  /\ UNCHANGED <<templateTree, pkgVersion, diskVars, nfail, toolWrote>>

Exit == ExitRun /\ UNCHANGED sideVars

----------------------------------------------------------------------------
(* What happens to the target between runs *)

\* the user writes a destination file
UserEdit ==
  /\ pc = "idle"
  /\ rootExists
  /\ \E p \in Destinations(templateTree) :
       /\ ~(p \in DOMAIN files /\ files[p] = UserContent(p))
       /\ files' = Put(files, p, UserContent(p))
       /\ cursorExists' = (cursorExists \/ UnderCursor(p))
  /\ lastRun' = NoRun
  /\ UNCHANGED <<sideVars, templateTree, pkgVersion, rootExists, manifestFile, auxWritten, pc, runVars,
                 manifestWrites, nfail, toolWrote>>

\* the user deletes a destination file
UserDelete ==
  /\ pc = "idle"
  /\ \E p \in Destinations(templateTree) \cap DOMAIN files :
       files' = [q \in DOMAIN files \ {p} |-> files[q]]
  /\ lastRun' = NoRun
  /\ UNCHANGED <<sideVars, templateTree, pkgVersion, rootExists, cursorExists, manifestFile, auxWritten,
                 pc, runVars, manifestWrites, nfail, toolWrote>>

\* the user deletes .ai-kit-manifest.json
UserDeletesManifest ==
  /\ pc = "idle"
  /\ manifestFile.state # "absent"
  /\ manifestFile' = NoManifest
  /\ lastRun' = NoRun
  /\ UNCHANGED <<sideVars, templateTree, pkgVersion, rootExists, cursorExists, files, auxWritten, pc,
                 runVars, manifestWrites, nfail, toolWrote>>

\* the manifest gets damaged (bad merge, editor accident)
ManifestDamaged ==
  /\ pc = "idle"
  /\ manifestFile.state = "ok"
  /\ manifestFile' = CorruptManifest
  /\ lastRun' = NoRun
  /\ UNCHANGED <<sideVars, templateTree, pkgVersion, rootExists, cursorExists, files, auxWritten, pc,
                 runVars, manifestWrites, nfail, toolWrote>>

\* a newer release of the package, with new templates, is used from now on
UpgradePackage ==
  /\ pc = "idle"
  /\ pkgVersion < MaxVersion
  /\ pkgVersion' = pkgVersion + 1
  /\ lastRun' = NoRun
  /\ UNCHANGED <<sideVars, templateTree, diskVars, auxWritten, pc, runVars, manifestWrites, nfail, toolWrote>>

----------------------------------------------------------------------------

Run ==
  \E force \in BOOLEAN, dryRun \in BOOLEAN, cursorDirOpt \in {"", DEFAULT_CURSOR_DIR} :
    \E yes \in (IF force /\ ~dryRun THEN BOOLEAN ELSE {FALSE}) :
      Resolve(force, dryRun, yes, cursorDirOpt)

Next ==
  \/ Run
  \/ ConfirmProceed
  \/ ConfirmDeclined
  \/ Gather
  \/ GatherThrows
  \/ DryRunReport
  \/ WriteCreation
  \/ WriteUpdate
  \/ WriteNewFile
  \/ OpenManifest
  \/ OpenManifestFails
  \/ WriteManifest
  \/ UpdateGitignore
  \/ UpdatePackageJson
  \/ Finish
  \/ Kill
  \/ Exit
  \/ UserEdit
  \/ UserDeletesManifest
  \/ ManifestDamaged
  \/ UpgradePackage

Spec == Init /\ [][Next]_vars

SpecCollide == InitCollide /\ [][Next]_vars

SpecDocs == InitDocs /\ [][Next]_vars

\* the runs and the user, who now also deletes files
NextDelete == Next \/ UserDelete

SpecDelete == InitDelete /\ [][NextDelete]_vars

TypeOK ==
  /\ pc \in {"idle", "confirm", "gather", "report", "apply", "manifest", "gitignore",
             "package", "finish", "done", "killed"}
  /\ pkgVersion \in 1..MaxVersion
  /\ manifestWrites \in 0..1
  /\ auxWritten \subseteq {<<".gitignore">>, <<"package.json">>}
  /\ ~rootExists => (DOMAIN files = {} /\ ~cursorExists /\ manifestFile = NoManifest)

----------------------------------------------------------------------------
(* Vocabulary of the properties *)

Dest(i) == TargetRelPath(templateTree[i], cursorDirName)

Template(i) == TemplateContent(templateTree[i], pkgVersion)

Templates == 1..Len(templateTree)

ExistedBefore(d) == d \in DOMAIN pre.files

Untouched(d) == d \in DOMAIN files /\ files[d] = pre.files[d]

Chosen(list, path) == \E k \in 1..Len(list) : list[k].path = path

Failed(path) == \E k \in 1..Len(criticalFailures) : criticalFailures[k] = path

InRun == pc # "idle"

RealRun == InRun /\ ~options.dryRun

\* the run got to the end of runInit (it was not declined, did not throw, was not killed)
Completed == pc = "done" /\ result \in {"success", "failed"}

Committed == Completed /\ ~Failed(<<".ai-kit-manifest.json">>)

\* the decision loop of the run has been executed
Decided ==
  \/ pc \in {"report", "apply", "manifest", "finish"}
  \/ pc = "done" /\ result \in {"success", "failed", "dry-run"}

Collides == \E i, j \in Templates : i # j /\ Dest(i) = Dest(j)

DiskUnchanged ==
  /\ rootExists = pre.rootExists
  /\ cursorExists = pre.cursorExists
  /\ files = pre.files
  /\ manifestFile = pre.manifestFile
  /\ auxWritten = {}

----------------------------------------------------------------------------
(* C1: in a real run with neither force mode nor safe-upgrade mode, every
   template destination that exists with content different from its template
   keeps its bytes, at every point of the run and after it. *)
C1_NoDataLoss ==
  (RealRun /\ ~options.force /\ ~safeUpgradeWithoutManifest) =>
    \A i \in Templates :
      (ExistedBefore(Dest(i)) /\ pre.files[Dest(i)] # Template(i)) => Untouched(Dest(i))

\* a plain run finished that wrote a file and left a differing, unpreserved one alone
C1_Witness ==
  /\ Completed /\ result = "success"
  /\ ~options.force /\ ~safeUpgradeWithoutManifest
  /\ creations # <<>>
  /\ \E i \in Templates :
       /\ ExistedBefore(Dest(i))
       /\ pre.files[Dest(i)] # Template(i)
       /\ ~IsPreserved(Dest(i), cursorDirName)

(* C2: a run with --force never overwrites a destination the user edited after
   the tool last wrote it: the file keeps its bytes and, unless it is on the
   preserve list, the template goes to '<destination>.new'. *)
C2_ForceKeepsUserEdits ==
  (Completed /\ result = "success" /\ options.force) =>
    \A i \in Templates :
      (/\ Dest(i) \in pre.toolWrote
       /\ ExistedBefore(Dest(i))
       /\ pre.files[Dest(i)].by = "user")
      => /\ Untouched(Dest(i))
         /\ ~IsPreserved(Dest(i), cursorDirName) =>
              /\ SiblingPath(Dest(i)) \in DOMAIN files
              /\ files[SiblingPath(Dest(i))] = Template(i)

(* C3: when a real run chooses ConflictWriteSibling for a destination and the write
   of the sibling succeeds, then after the run the destination has the bytes
   it had before and '<destination>.new' holds exactly the template's bytes. *)
C3_ConflictSafety ==
  Completed =>
    \A i \in Templates :
      (Chosen(newFiles, SiblingPath(Dest(i))) /\ ~Failed(SiblingPath(Dest(i)))) =>
        /\ ExistedBefore(Dest(i))
        /\ Untouched(Dest(i))
        /\ SiblingPath(Dest(i)) \in DOMAIN files
        /\ files[SiblingPath(Dest(i))] = Template(i)

\* a force run ended with a conflict sibling written
C3_Witness ==
  /\ Completed /\ result = "success"
  /\ options.force
  /\ newFiles # <<>>

(* C4: a preserve-list destination that exists before a run keeps its bytes
   under any flags, and the manifest committed by the run records the
   fingerprint of that on-disk content for it. *)
C4_Preserve ==
  InRun =>
    \A i \in Templates :
      (IsPreserved(Dest(i), cursorDirName) /\ ExistedBefore(Dest(i))) =>
        /\ Untouched(Dest(i))
        /\ Committed =>
             /\ manifestFile.state = "ok"
             /\ Dest(i) \in DOMAIN manifestFile.files
             /\ manifestFile.files[Dest(i)] = calculateChecksum(files[Dest(i)])

\* a force run committed with an edited preserve-list file in the target
C4_Witness ==
  /\ Committed
  /\ options.force
  /\ \E i \in Templates :
       /\ IsPreserved(Dest(i), cursorDirName)
       /\ ExistedBefore(Dest(i))
       /\ pre.files[Dest(i)] # Template(i)

(* C5: when the manifest file exists but cannot be parsed, the run goes on in
   safe-upgrade mode: under any flags every existing destination that differs
   from its template (and is not preserved) gets ConflictWriteSibling and
   keeps its bytes. *)
C5_UnparsableManifestIsSafeUpgrade ==
  (Decided /\ pre.manifestFile.state \in {"corrupt", "truncated"}) =>
    \A i \in Templates :
      (/\ ExistedBefore(Dest(i))
       /\ pre.files[Dest(i)] # Template(i)
       /\ ~IsPreserved(Dest(i), cursorDirName))
      => /\ Untouched(Dest(i))
         /\ Chosen(newFiles, SiblingPath(Dest(i)))

(* C6 as stated: of two consecutive successful real runs with nothing changed
   in between, whatever the force mode of each, the second makes no Create
   and no UpdateInPlace decision. *)
C6_Idempotent ==
  (Decided /\ ~options.dryRun /\ prevRun.ok) =>
    (creations = <<>> /\ updates = <<>>)

(* C6 amended: of two consecutive successful real runs with nothing changed in
   between, the second makes no Create decision, and no UpdateInPlace decision
   unless it is a --force run that follows a run without --force. *)
C6_IdempotentUnlessForceAdded ==
  (Decided /\ ~options.dryRun /\ prevRun.ok) =>
    /\ creations = <<>>
    /\ (options.force /\ ~prevRun.force) \/ updates = <<>>

\* a --force run right after a successful --force run that left a conflict
C6_Witness ==
  /\ Completed /\ result = "success"
  /\ prevRun.ok /\ prevRun.force /\ options.force
  /\ newFiles # <<>>
  /\ \E i \in Templates : Dest(i) \in pre.toolWrote

(* C7: if the process is terminated during a run, the manifest file is either
   the document that was there when the run started or the complete document
   of this run, never something partial. *)
C7_ManifestNeverPartial ==
  pc = "killed" =>
    \/ manifestFile = pre.manifestFile
    \/ manifestFile = ManifestDoc(pkgVersion, manifest)

(* C8: a run in which two template paths map to the same destination is
   rejected before either template's content is written there: the run never
   completes and the destination is not written. *)
C8_CollisionRejected ==
  (InRun /\ Collides) =>
    /\ ~Completed
    /\ \A i, j \in Templates :
         (i # j /\ Dest(i) = Dest(j)) =>
           IF ExistedBefore(Dest(i)) THEN Untouched(Dest(i)) ELSE Dest(i) \notin DOMAIN files

(* C9: a dry-run changes nothing: no file or directory is created, changed or
   removed, the manifest is not written and a missing target root is not
   created. *)
C9_DryRunNoMutation ==
  (InRun /\ options.dryRun) => DiskUnchanged

\* a dry-run on a missing target root reported files to create
C9_Witness ==
  /\ pc = "done" /\ result = "dry-run"
  /\ ~pre.rootExists
  /\ creations # <<>>

(* C10: a read error on one file is captured for that file and the other
   files are still processed: after a real run that hit one unreadable file,
   every other destination that was missing has been written or reported as a
   failed write. *)
C10_ReadErrorIsolated ==
  (pc = "done" /\ result = "file-unreadable" /\ ~options.dryRun) =>
    \E i \in Templates :
      \A j \in Templates \ {i} :
        ~ExistedBefore(Dest(j)) => (Dest(j) \in DOMAIN files \/ Failed(Dest(j)))

----------------------------------------------------------------------------
(* Vocabulary of the apply phase *)

\* the three write loops of the run are over
AfterApply ==
  \/ pc \in {"manifest", "gitignore", "package", "finish"}
  \/ Completed

\* the file of a planned write holds the planned content
Applied(item) == item.path \in DOMAIN files /\ files[item.path] = item.content

Planned == {creations, updates, newFiles}

ManifestPath == <<".ai-kit-manifest.json">>

(* C11: in a real run a failed write of a destination does not stop the other
   writes: once the write loops are over, every planned write is either on
   disk (applied and not rolled back) or in the critical-failure list, and a
   run that ends with a critical failure exits with status 1. *)
C11_WriteFailureIsolated ==
  (RealRun /\ AfterApply) =>
    /\ \A list \in Planned : \A k \in 1..Len(list) :
         Applied(list[k]) \/ Failed(list[k].path)
    /\ (Completed /\ criticalFailures # <<>>) => (exitCode = 1 /\ result = "failed")

\* the first of two creations failed, the second was written, the run exited 1
C11_Witness ==
  /\ Completed
  /\ Len(creations) = 2
  /\ Failed(creations[1].path) /\ ~Applied(creations[1])
  /\ Applied(creations[2])
  /\ exitCode = 1

(* C12: when every destination write succeeds and only the write of the
   manifest fails, the run ends with exit status 0. *)
C12_ManifestFailureIsWarning ==
  (Completed /\ criticalFailures = <<ManifestPath>>) => exitCode = 0

(* C13: a failed update of .gitignore or package.json is a warning only: the run
   still gets to its end, and its exit status is 1 exactly when a required
   write failed. *)
C13_AuxFailureIsWarning ==
  (pc = "done" /\ optionalFailures # <<>>) =>
    /\ Completed
    /\ exitCode = (IF criticalFailures # <<>> THEN 1 ELSE 0)

\* .gitignore could not be updated, package.json was updated after that, exit 0
C13_Witness ==
  /\ Completed
  /\ optionalFailures = << <<".gitignore">> >>
  /\ <<"package.json">> \in auxWritten
  /\ exitCode = 0

(* C14: safe-upgrade mode is on only in a run that found the cursor directory in
   the target when it started and found no loadable manifest; in a run without
   --force on a target that had neither a cursor directory nor a manifest, an
   existing file that differs from its template is skipped and gets no '.new'
   file. *)
C14_SafeUpgradeOnlyOnPriorInstall ==
  Decided =>
    /\ safeUpgradeWithoutManifest =>
         (pre.cursorExists /\ pre.manifestFile.state # "ok")
    /\ (~options.force /\ ~pre.cursorExists /\ pre.manifestFile.state = "absent") =>
         \A i \in Templates :
           (/\ ExistedBefore(Dest(i))
            /\ pre.files[Dest(i)] # Template(i)
            /\ ~IsPreserved(Dest(i), cursorDirName))
           => /\ ~Chosen(newFiles, SiblingPath(Dest(i)))
              /\ SiblingPath(Dest(i)) \notin DOMAIN files

(* C15: the decision taken for a destination, and the manifest entry left for
   it, are those of the ordered rules 1-6 applied to the template fingerprint,
   the fingerprint of the current content (or its absence), the baseline entry
   (or its absence), isPreserved, force mode and safe-upgrade mode, and to
   nothing else.  The entry of a Create or UpdateInPlace is the one left by a
   write that succeeded. *)
C15_DecisionTable ==
  Decided =>
    \A i \in Templates :
      LET d == Dest(i)
          template == calculateChecksum(Template(i))
          present == ExistedBefore(d)
          current == calculateChecksum(pre.files[d])
          hasBase == d \in DOMAIN manifestBaseline
          baseline == manifestBaseline[d]
          isPreserved == IsPreserved(d, cursorDirName)
          forceMode == options.force
          safeUpgradeMode == safeUpgradeWithoutManifest
          userModified == \/ hasBase /\ baseline # current
                          \/ ~hasBase /\ safeUpgradeMode
          rule == IF isPreserved /\ present THEN "Preserve"
                  ELSE IF ~present THEN "Create"
                  ELSE IF current = template THEN "SkipUnchanged"
                  ELSE IF forceMode \/ safeUpgradeMode
                  THEN IF userModified THEN "ConflictWriteSibling" ELSE "UpdateInPlace"
                  ELSE "SkipExisting"
          entered == d \in DOMAIN manifest
          asInBaseline == IF hasBase THEN entered /\ manifest[d] = baseline ELSE ~entered
      IN /\ Chosen(skips, d) <=> rule = "Preserve"
         /\ Chosen(creations, d) <=> rule = "Create"
         /\ Chosen(updates, d) <=> rule = "UpdateInPlace"
         /\ Chosen(newFiles, SiblingPath(d)) <=> rule = "ConflictWriteSibling"
         /\ rule = "Preserve" => (entered /\ manifest[d] = current)
         /\ (rule \in {"Create", "UpdateInPlace"} /\ AfterApply /\ ~Failed(d)) =>
              (entered /\ manifest[d] = template)
         /\ rule = "SkipUnchanged" => (entered /\ manifest[d] = template)
         /\ rule = "ConflictWriteSibling" => asInBaseline
         /\ rule = "SkipExisting" =>
              IF hasBase THEN entered /\ manifest[d] = current ELSE ~entered

\* rule 6 with a baseline: a run without --force skipped an edited file that
\* the manifest tracked and recorded the fingerprint of the edit
C15_Witness ==
  /\ Completed
  /\ ~options.force /\ ~safeUpgradeWithoutManifest
  /\ \E i \in Templates :
       /\ ~IsPreserved(Dest(i), cursorDirName)
       /\ ExistedBefore(Dest(i))
       /\ pre.files[Dest(i)] # Template(i)
       /\ Dest(i) \in DOMAIN manifestBaseline
       /\ manifestBaseline[Dest(i)] # calculateChecksum(pre.files[Dest(i)])
       /\ manifest[Dest(i)] = calculateChecksum(pre.files[Dest(i)])

\* the entry of path in entries is the one the run loaded as its baseline
AsInBaseline(entries, path) ==
  IF path \in DOMAIN manifestBaseline
  THEN path \in DOMAIN entries /\ entries[path] = manifestBaseline[path]
  ELSE path \notin DOMAIN entries

(* C16 as stated: in the manifest a run has committed, the entry of every
   destination the run wrote (Create or UpdateInPlace) is the fingerprint of
   the bytes the run put there, and the entry of a destination whose write
   failed is not the template's fingerprint. *)
C16_FailedWriteHasNoTemplateEntry ==
  Committed =>
    /\ manifestFile.state = "ok"
    /\ \A list \in {creations, updates} : \A k \in 1..Len(list) :
         IF Failed(list[k].path)
         THEN \/ list[k].path \notin DOMAIN manifestFile.files
              \/ manifestFile.files[list[k].path] # calculateChecksum(list[k].content)
         ELSE /\ list[k].path \in DOMAIN manifestFile.files
              /\ manifestFile.files[list[k].path] = calculateChecksum(files[list[k].path])
              /\ files[list[k].path] = list[k].content

(* C16 amended: in the manifest a run has committed, the entry of every
   destination the run wrote (Create or UpdateInPlace) is the fingerprint of
   the bytes the run put there, and a destination whose write failed keeps the
   entry the baseline had for it (none if it had none). *)
C16_EntryIsWrittenBytes ==
  Committed =>
    /\ manifestFile.state = "ok"
    /\ \A list \in {creations, updates} : \A k \in 1..Len(list) :
         IF Failed(list[k].path)
         THEN AsInBaseline(manifestFile.files, list[k].path)
         ELSE /\ list[k].path \in DOMAIN manifestFile.files
              /\ manifestFile.files[list[k].path] = calculateChecksum(files[list[k].path])
              /\ files[list[k].path] = list[k].content

\* a committed run failed to re-create a deleted file that the manifest tracks
C16_Witness ==
  /\ Committed
  /\ \E k \in 1..Len(creations) :
       /\ Failed(creations[k].path)
       /\ creations[k].path \in DOMAIN manifestBaseline
       /\ creations[k].path \in DOMAIN manifestFile.files

(* C17: no key of a written manifest is a conflict sibling path, and a run that
   chose ConflictWriteSibling for a destination commits the destination's
   entry exactly as it was in the baseline. *)
C17_NoSiblingInManifest ==
  /\ manifestFile.state = "ok" =>
       \A key \in DOMAIN manifestFile.files : Last(key) # ".new"
  /\ Committed =>
       \A i \in Templates :
         Chosen(newFiles, SiblingPath(Dest(i))) =>
           AsInBaseline(manifestFile.files, Dest(i))

\* a committed run wrote a sibling for a destination the manifest tracks
C17_Witness ==
  /\ Committed
  /\ \E i \in Templates :
       /\ Chosen(newFiles, SiblingPath(Dest(i)))
       /\ SiblingPath(Dest(i)) \in DOMAIN files
       /\ Dest(i) \in DOMAIN manifestBaseline

(* C18: a run writes the manifest file at most once, a dry-run never writes it,
   and a real run writes it only when every planned Create, UpdateInPlace and
   sibling write has been attempted. *)
C18_ManifestWrittenOnceAtEnd ==
  /\ manifestWrites <= 1
  /\ (InRun /\ options.dryRun) => (manifestWrites = 0 /\ manifestFile = pre.manifestFile)
  /\ manifestWrites > 0 =>
       /\ pending = <<>>
       /\ \A list \in Planned : \A k \in 1..Len(list) :
            Applied(list[k]) \/ Failed(list[k].path)

\* the manifest was written after two planned writes, one of them a failure
C18_Witness ==
  /\ Completed
  /\ manifestWrites = 1 /\ manifestFile.state = "ok"
  /\ Len(creations) + Len(updates) + Len(newFiles) = 2
  /\ Len(criticalFailures) = 1

(* C19: when a destination holds exactly its template's bytes at the start of a
   real run, the manifest the run commits has the template's fingerprint for
   it, whatever the baseline said and whatever the flags. *)
C19_ManifestRepair ==
  Committed =>
    \A i \in Templates :
      (ExistedBefore(Dest(i)) /\ pre.files[Dest(i)] = Template(i)) =>
        /\ manifestFile.state = "ok"
        /\ Dest(i) \in DOMAIN manifestFile.files
        /\ manifestFile.files[Dest(i)] = calculateChecksum(Template(i))

\* a committed run found a destination equal to its template with a stale entry
C19_Witness ==
  /\ Committed
  /\ \E i \in Templates :
       /\ ExistedBefore(Dest(i)) /\ pre.files[Dest(i)] = Template(i)
       /\ Dest(i) \in DOMAIN manifestBaseline
       /\ manifestBaseline[Dest(i)] # calculateChecksum(Template(i))

(* C20: in a run in safe-upgrade mode (cursor directory there, manifest absent),
   a destination that holds its template's bytes gets no '.new' file, and when
   no write fails the run exits with status 0 and the manifest it writes has
   the template's fingerprint for that destination. *)
C20_SafeUpgradeMatchingTemplates ==
  (Completed /\ safeUpgradeWithoutManifest) =>
    \A i \in Templates :
      (ExistedBefore(Dest(i)) /\ pre.files[Dest(i)] = Template(i)) =>
        /\ ~Chosen(newFiles, SiblingPath(Dest(i)))
        /\ SiblingPath(Dest(i)) \in DOMAIN files =>
             /\ SiblingPath(Dest(i)) \in DOMAIN pre.files
             /\ files[SiblingPath(Dest(i))] = pre.files[SiblingPath(Dest(i))]
        /\ criticalFailures = <<>> =>
             /\ exitCode = 0
             /\ manifestFile.state = "ok"
             /\ Dest(i) \in DOMAIN manifestFile.files
             /\ manifestFile.files[Dest(i)] = calculateChecksum(Template(i))

\* safe upgrade of an installation whose files all match: nothing to write
C20_Witness ==
  /\ Completed /\ safeUpgradeWithoutManifest /\ exitCode = 0
  /\ pre.cursorExists
  /\ \A i \in Templates :
       ExistedBefore(Dest(i)) /\ pre.files[Dest(i)] = Template(i)
  /\ creations = <<>> /\ updates = <<>> /\ newFiles = <<>>
  /\ manifestFile.state = "ok"

----------------------------------------------------------------------------
(* The destination path as a string                                        *)
(*                                                                         *)
(* A path string is a sequence of pieces: the separator "/" and pieces of  *)
(* file names, none of which is part of another, so that startsWith,       *)
(* includes and replace on the string are the same tests on the pieces.    *)

MaxPathLen == 4

NamePieces == {"_cursor", "file-doc-map.template.json", "x"}

PathPieces == NamePieces \cup {"/"}

CursorDirNames == {".cursor", "cursor-copy"}

\* relative paths as path.join builds them during the walk: no empty segment
IsRelPath(str) ==
  /\ Len(str) >= 1
  /\ str[1] # "/"
  /\ str[Len(str)] # "/"
  /\ \A i \in 1..(Len(str) - 1) : ~(str[i] = "/" /\ str[i + 1] = "/")

RelPaths ==
  { str \in UNION { [1..n -> PathPieces] : n \in 1..MaxPathLen } : IsRelPath(str) }

\* String.prototype.startsWith
StartsWith(str, piece) == Len(str) >= 1 /\ str[1] = piece

\* String.prototype.includes
Includes(str, piece) == \E i \in 1..Len(str) : str[i] = piece

\* String.prototype.replace with a string pattern: the first occurrence only
ReplaceFirst(str, piece, by) ==
  IF ~Includes(str, piece)
  THEN str
  ELSE LET i == CHOOSE k \in 1..Len(str) :
                  /\ str[k] = piece
                  /\ \A j \in 1..(k - 1) : str[j] # piece
       IN [str EXCEPT ![i] = by]

\* source lines 469-471
RenameAlias(str, dirName) ==
  IF StartsWith(str, "_cursor") THEN ReplaceFirst(str, "_cursor", dirName) ELSE str

\* source lines 473-475
RenameDocMap(str) ==
  IF Includes(str, "file-doc-map.template.json")
  THEN ReplaceFirst(str, "file-doc-map.template.json", "file-doc-map.json")
  ELSE str

\* source lines 466-476
MapTemplatePath(str, dirName) == RenameDocMap(RenameAlias(str, dirName))

InitMap ==
  /\ NoTarget
  /\ SideIdleBut("map")
  /\ walkedRel \in RelPaths
  /\ walkedDir \in CursorDirNames
  /\ mappedRel = NoString

\* one turn of the loop over filesToProcess, up to targetRelPath
MapOne ==
  /\ mappedRel = NoString
  /\ mappedRel' = MapTemplatePath(walkedRel, walkedDir)
  /\ UNCHANGED <<installVars, walkedRel, walkedDir>>
  /\ SideUnchangedBut("map")

\* the walk reaches its next file
WalkNext ==
  /\ mappedRel # NoString
  /\ walkedRel' \in RelPaths
  /\ mappedRel' = NoString
  /\ UNCHANGED <<installVars, walkedDir>>
  /\ SideUnchangedBut("map")

NextMap == MapOne \/ WalkNext

SpecMap == InitMap /\ [][NextMap]_vars

\* the first segment of the path is exactly the name
LeadingSegmentIs(str, name) ==
  /\ str[1] = name
  /\ Len(str) = 1 \/ str[2] = "/"

\* the last segment of the path is exactly the name
BasenameIs(str, name) ==
  /\ str[Len(str)] = name
  /\ Len(str) = 1 \/ str[Len(str) - 1] = "/"

\* the mapping by whole segments
MapBySegments(str, dirName) ==
  LET aliased == IF LeadingSegmentIs(str, "_cursor")
                 THEN [str EXCEPT ![1] = dirName]
                 ELSE str
  IN IF BasenameIs(aliased, "file-doc-map.template.json")
     THEN [aliased EXCEPT ![Len(aliased)] = "file-doc-map.json"]
     ELSE aliased

\* C21: the destination of a template-relative path is the path with a leading
\* segment that is exactly "_cursor" replaced by the cursor directory name and
\* then a basename that is exactly file-doc-map.template.json replaced by
\* file-doc-map.json; a path with neither is mapped to itself.
C21_MapsWholeSegmentsOnly ==
  mappedRel # NoString => mappedRel = MapBySegments(walkedRel, walkedDir)

----------------------------------------------------------------------------
(* The cursor directory name                                               *)
(*                                                                         *)
(* An option or environment value is a string of pieces: blanks, slashes,  *)
(* backslashes and names.  The value <<>> is an option that was not given  *)
(* or a variable that is not set.                                          *)

MaxDirLen == 2

DirPieces == {" ", "/", "\\", "cursor"}

DirValues == UNION { [1..n -> DirPieces] : n \in 0..MaxDirLen }

RECURSIVE TrimStart(_)
TrimStart(str) ==
  IF str # <<>> /\ Head(str) = " " THEN TrimStart(Tail(str)) ELSE str

RECURSIVE StripEnd(_, _)
\* the string without its trailing run of the piece
StripEnd(str, piece) ==
  IF str # <<>> /\ str[Len(str)] = piece
  THEN StripEnd(SubSeq(str, 1, Len(str) - 1), piece)
  ELSE str

\* String.prototype.trim
Trim(str) == StripEnd(TrimStart(str), " ")

\* replace(/\\/g, '/')
SlashesOnly(str) == [i \in 1..Len(str) |-> IF str[i] = "\\" THEN "/" ELSE str[i]]

\* source lines 17-20
normalizeCursorDirName(value) ==
  LET trimmed == StripEnd(SlashesOnly(Trim(value)), "/")
  IN IF Len(trimmed) > 0 THEN trimmed ELSE <<DEFAULT_CURSOR_DIR>>

\* value && value.trim().length > 0
Given(value) == Len(value) > 0 /\ Len(Trim(value)) > 0

\* source lines 212-222: the answer, and whether ensureDirSync made the directory
isWritableDir(cursorDirState) ==
  [ok |-> cursorDirState \in {"absent", "writable"},
   ensured |-> cursorDirState = "absent"]

\* the environment variable consulted before the option
resolveEnvFirst(in) ==
  LET probe == isWritableDir(in.cursorDirState)
  IN IF Given(in.env)
     THEN [name |-> normalizeCursorDirName(in.env), ensured |-> FALSE]
     ELSE IF Given(in.cursorDir)
     THEN [name |-> normalizeCursorDirName(in.cursorDir), ensured |-> FALSE]
     ELSE IF in.defaultConfig
     THEN [name |-> <<DEFAULT_CURSOR_DIR>>, ensured |-> FALSE]
     ELSE IF in.fallbackConfig
     THEN [name |-> <<FALLBACK_CURSOR_DIR>>, ensured |-> FALSE]
     ELSE IF in.dryRun
     THEN [name |-> <<DEFAULT_CURSOR_DIR>>, ensured |-> FALSE]
     ELSE IF probe.ok
     THEN [name |-> <<DEFAULT_CURSOR_DIR>>, ensured |-> probe.ensured]
     ELSE [name |-> <<FALLBACK_CURSOR_DIR>>, ensured |-> probe.ensured]

\* source lines 22-46
resolveCursorDir(in) ==
  LET probe == isWritableDir(in.cursorDirState)
  IN IF Given(in.cursorDir)
     THEN [name |-> normalizeCursorDirName(in.cursorDir), ensured |-> FALSE]
     ELSE IF Given(in.env)
     THEN [name |-> normalizeCursorDirName(in.env), ensured |-> FALSE]
     ELSE IF in.defaultConfig
     THEN [name |-> <<DEFAULT_CURSOR_DIR>>, ensured |-> FALSE]
     ELSE IF in.fallbackConfig
     THEN [name |-> <<FALLBACK_CURSOR_DIR>>, ensured |-> FALSE]
     ELSE IF in.dryRun
     THEN [name |-> <<DEFAULT_CURSOR_DIR>>, ensured |-> FALSE]
     ELSE IF probe.ok
     THEN [name |-> <<DEFAULT_CURSOR_DIR>>, ensured |-> probe.ensured]
     ELSE [name |-> <<FALLBACK_CURSOR_DIR>>, ensured |-> probe.ensured]

\* the invocations of the CLI: option, environment and the state of the project
ResolveInputs ==
  { in \in [cursorDir : DirValues, env : DirValues, defaultConfig : BOOLEAN,
            fallbackConfig : BOOLEAN, dryRun : BOOLEAN,
            cursorDirState : {"absent", "writable", "readonly", "blocked"}] :
      in.defaultConfig => in.cursorDirState \in {"writable", "readonly"} }

InitDir ==
  /\ NoTarget
  /\ SideIdleBut("dir")
  /\ resolveIn \in ResolveInputs
  /\ resolveOut = NoResolve

\* source line 342
ResolveDir ==
  /\ resolveOut = NoResolve
  /\ LET r == resolveCursorDir(resolveIn)
     IN resolveOut' = [name |-> r.name,
                       created |-> IF r.ensured THEN {<<DEFAULT_CURSOR_DIR>>} ELSE {},
                       applied |-> FALSE]
  /\ UNCHANGED <<installVars, resolveIn>>
  /\ SideUnchangedBut("dir")

\* the apply phase writes the files of templates/_cursor under the resolved
\* name (source lines 469-471, 573-611); a dry run writes nothing
WriteCursorFiles ==
  /\ resolveOut # NoResolve
  /\ ~resolveOut.applied
  /\ resolveOut' = [resolveOut EXCEPT
                      !.applied = TRUE,
                      !.created = IF resolveIn.dryRun THEN @ ELSE @ \cup {resolveOut.name}]
  /\ UNCHANGED <<installVars, resolveIn>>
  /\ SideUnchangedBut("dir")

NextDir == ResolveDir \/ WriteCursorFiles

SpecDir == InitDir /\ [][NextDir]_vars

\* the name the rules give, in their order
NameByFirstRule(in) ==
  IF Given(in.cursorDir) THEN normalizeCursorDirName(in.cursorDir)
  ELSE IF Given(in.env) THEN normalizeCursorDirName(in.env)
  ELSE IF in.defaultConfig THEN <<DEFAULT_CURSOR_DIR>>
  ELSE IF in.fallbackConfig THEN <<FALLBACK_CURSOR_DIR>>
  ELSE IF in.dryRun \/ in.cursorDirState \in {"absent", "writable"}
  THEN <<DEFAULT_CURSOR_DIR>>
  ELSE <<FALLBACK_CURSOR_DIR>>

\* C22: the cursor directory name is the one of the first rule that applies
\* (option, environment variable, .cursor config, cursor-copy config, .cursor
\* if writable or in dry-run, cursor-copy); when another directory is chosen
\* explicitly, nothing is created under .cursor nor under the directory named
\* by the overridden environment variable.
C22_FirstRuleChoosesDir ==
  resolveOut # NoResolve =>
    /\ resolveOut.name = NameByFirstRule(resolveIn)
    /\ (Given(resolveIn.cursorDir) \/ Given(resolveIn.env)) /\
       resolveOut.name # <<DEFAULT_CURSOR_DIR>>
         => <<DEFAULT_CURSOR_DIR>> \notin resolveOut.created
    /\ Given(resolveIn.cursorDir) /\ Given(resolveIn.env) /\
       normalizeCursorDirName(resolveIn.env) # resolveOut.name
         => normalizeCursorDirName(resolveIn.env) \notin resolveOut.created

\* a real run with the option naming "cursor" and the variable naming .cursor,
\* in a project where .cursor does not exist, has written its cursor files
C22_Witness ==
  /\ resolveOut.applied
  /\ ~resolveIn.dryRun
  /\ Given(resolveIn.cursorDir) /\ Given(resolveIn.env)
  /\ resolveIn.cursorDirState = "absent"
  /\ resolveOut.name = <<"cursor">>
  /\ normalizeCursorDirName(resolveIn.env) = <<DEFAULT_CURSOR_DIR>>
  /\ resolveOut.created = {<<"cursor">>}

----------------------------------------------------------------------------
(* The age of a @docs-update marker                                        *)
(*                                                                         *)
(* The marker date and today are local midnights.  A marker is given by    *)
(* its age in calendar days (negative: a date in the future) and by the    *)
(* hours by which the local clock was shifted between the two midnights    *)
(* (a change to or from daylight saving time).                             *)

MaxAge == 20

ClockShifts == {-1, 0, 1}

\* CONFIG.maxDays, options.maxDays ?? 14
DefaultMaxDays == 14

\* CONFIG.warnDays, options.warnDays ?? 7
DefaultWarnDays == 7

\* hours from the marker's midnight to today's
HoursBetween(marker) == marker.age * 24 + marker.shift

\* markerDate > today
InFuture(marker) == HoursBetween(marker) < 0

\* Math.floor((to - from) / msPerDay)
daysBetween(marker) == HoursBetween(marker) \div 24

\* check-markers.js lines 254-292, for a date that parses
getMarkerStatus(marker, maxDays, warnDays) ==
  LET daysOld == daysBetween(marker)
      daysLeft == maxDays - daysOld
  IN IF InFuture(marker) THEN "invalid-date"
     ELSE IF daysOld > maxDays THEN "expired"
     ELSE IF daysLeft <= warnDays THEN "warning"
     ELSE "ok"

\* docs-marker-expiry.js lines 107-167: the message reported, if any
checkCommentExpiry(marker, maxDays) ==
  IF InFuture(marker) THEN "futureDate"
  ELSE IF daysBetween(marker) > maxDays THEN "expired"
  ELSE ""

\* docs-marker-expiring.js lines 89-112: the message reported, if any
checkCommentExpiring(marker, maxDays, warnDays) ==
  LET daysOld == daysBetween(marker)
      daysLeft == maxDays - daysOld
  IN IF InFuture(marker) THEN ""
     ELSE IF daysOld <= maxDays /\ daysLeft <= warnDays THEN "expiringSoon"
     ELSE ""

Markers ==
  { marker \in [age : -1..MaxAge, shift : ClockShifts] :
      marker.age = 0 => marker.shift = 0 }

InitMarker ==
  /\ NoTarget
  /\ SideIdleBut("marker")
  /\ markerIn \in Markers
  /\ markerOut = NoStatus

\* npm run docs:check and an ESLint run over the file holding the marker
CheckMarker ==
  /\ markerOut = NoStatus
  /\ markerOut' =
       [cli |-> getMarkerStatus(markerIn, DefaultMaxDays, DefaultWarnDays),
        expiry |-> checkCommentExpiry(markerIn, DefaultMaxDays),
        expiring |-> checkCommentExpiring(markerIn, DefaultMaxDays, DefaultWarnDays)]
  /\ UNCHANGED <<installVars, markerIn>>
  /\ SideUnchangedBut("marker")

\* the marker is looked at again on another day
NextDay ==
  /\ markerOut # NoStatus
  /\ markerIn' \in Markers
  /\ markerOut' = NoStatus
  /\ UNCHANGED installVars
  /\ SideUnchangedBut("marker")

NextMarker == CheckMarker \/ NextDay

SpecMarker == InitMarker /\ [][NextMarker]_vars

\* how the two ESLint rules together classify the marker
LintClass(out) ==
  IF out.expiry # "" THEN "error"
  ELSE IF out.expiring # "" THEN "warning"
  ELSE "ok"

\* C23: with the default settings a dated marker is OK when 1 to 7 days old,
\* warning when 8 to 14 days old and error (expired) when 15 or more days old,
\* for check-markers and for the two ESLint rules alike.
C23_AgeWindows ==
  markerOut # NoStatus /\ markerIn.age >= 1 =>
    LET expected == IF markerIn.age <= 7 THEN "ok"
                    ELSE IF markerIn.age <= 14 THEN "warning"
                    ELSE "expired"
    IN /\ markerOut.cli = expected
       /\ LintClass(markerOut) = IF expected = "expired" THEN "error" ELSE expected

----------------------------------------------------------------------------
(* Running again after a run that did not finish its writes *)

\* the writes of the apply phase the run planned (source lines 573-604)
PlannedItems ==
  { creations[i] : i \in 1..Len(creations) }
    \cup { updates[i] : i \in 1..Len(updates) }
    \cup { newFiles[i] : i \in 1..Len(newFiles) }

\* those of them the run did not make: outputFileSync threw (recordFailure,
\* source lines 579-602), or the process ended before reaching them
UnwrittenItems ==
  { f \in PlannedItems :
      \/ \E i \in 1..Len(criticalFailures) : criticalFailures[i] = f.path
      \/ \E i \in 1..Len(pending) : pending[i].item = f }

\* the process is gone; what it left unwritten is remembered
ExitOwing ==
  /\ ExitRun
  /\ owed' = [options |-> options,
              writes |-> IF options.dryRun
                         THEN {}
                         ELSE { [path |-> f.path, content |-> f.content] : f \in UnwrittenItems }]
  /\ SideUnchangedBut("rerun")

\* runs of the CLI one after the other, nothing else touching the target
NextRerun ==
  \/ Run
  \/ ConfirmProceed
  \/ ConfirmDeclined
  \/ Gather
  \/ GatherThrows
  \/ DryRunReport
  \/ WriteCreation
  \/ WriteUpdate
  \/ WriteNewFile
  \/ OpenManifest
  \/ OpenManifestFails
  \/ WriteManifest
  \/ UpdateGitignore
  \/ UpdatePackageJson
  \/ Finish
  \/ Kill
  \/ ExitOwing

SpecRerun == Init /\ [][NextRerun]_vars

\* C24: after a real run that was interrupted or in which required writes
\* failed, a re-run with the same flags and no other change in which every write
\* succeeds leaves every destination and conflict sibling the first run did not
\* write written with the bytes the first run had planned for it.
C24_RerunCompletesWrites ==
  /\ pc = "done"
  /\ result = "success"
  /\ options = owed.options
  =>
  \A w \in owed.writes : w.path \in DOMAIN files /\ files[w.path] = w.content

----------------------------------------------------------------------------
(* Files the manifest does not track *)

\* the manifest the run found had an entry for the path
TrackedBefore(path) ==
  pre.manifestFile.state = "ok" /\ path \in DOMAIN pre.manifestFile.files

\* the manifest file has an entry for the path
Tracked(path) ==
  manifestFile.state = "ok" /\ path \in DOMAIN manifestFile.files

\* the run is a real one in neither force mode nor safe-upgrade mode, and it
\* found the destination present, different from its template and untracked
SkippedUntracked(i) ==
  /\ ~options.dryRun /\ ~options.force /\ ~safeUpgradeWithoutManifest
  /\ ExistedBefore(Dest(i))
  /\ pre.files[Dest(i)] # Template(i)
  /\ ~TrackedBefore(Dest(i))

\* C25 as stated: a destination that exists, differs from its template and has
\* no manifest entry, processed without force mode and without safe-upgrade
\* mode, has no manifest entry after the run.
C25_UntrackedStaysUntracked ==
  Completed => \A i \in Templates : SkippedUntracked(i) => ~Tracked(Dest(i))

\* C25 amended: a destination that is not on the preserve list, exists, differs
\* from its template and has no manifest entry, processed without force mode
\* and without safe-upgrade mode, has no manifest entry after the run; as the
\* run leaves the file as it is, the same holds for every further such run.
C25_UnpreservedUntrackedStaysUntracked ==
  Completed =>
    \A i \in Templates :
      (SkippedUntracked(i) /\ ~IsPreserved(Dest(i), cursorDirName)) =>
        /\ ~Tracked(Dest(i))
        /\ Untouched(Dest(i))

\* a plain run committed its manifest over the manifest of an earlier run, and
\* a differing file that was not tracked is still not tracked
C25_Witness ==
  /\ Committed /\ result = "success"
  /\ pre.manifestFile.state = "ok"
  /\ manifestFile.state = "ok"
  /\ \E i \in Templates :
       /\ SkippedUntracked(i)
       /\ ~IsPreserved(Dest(i), cursorDirName)
       /\ ~Tracked(Dest(i))

----------------------------------------------------------------------------
(* The manifest against the disk, with two cursor directories in use *)

\* a run with --cursor-dir cursor-copy
RunInCopy ==
  \E force \in BOOLEAN, dryRun \in BOOLEAN :
    \E yes \in (IF force /\ ~dryRun THEN BOOLEAN ELSE {FALSE}) :
      Resolve(force, dryRun, yes, FALLBACK_CURSOR_DIR)

\* the user removes or moves away a cursor directory with all its files
UserRemovesDir ==
  /\ pc = "idle"
  /\ \E d \in {DEFAULT_CURSOR_DIR, FALLBACK_CURSOR_DIR} :
       /\ \E p \in DOMAIN files : p[1] = d
       /\ files' = [q \in { p \in DOMAIN files : p[1] # d } |-> files[q]]
       /\ cursorExists' = (cursorExists /\ d # DEFAULT_CURSOR_DIR)
  /\ lastRun' = NoRun
  /\ UNCHANGED <<sideVars, templateTree, pkgVersion, rootExists, manifestFile, auxWritten,
                 pc, runVars, manifestWrites, nfail, toolWrote>>

NextSwitch ==
  \/ Run
  \/ RunInCopy
  \/ ConfirmProceed
  \/ ConfirmDeclined
  \/ Gather
  \/ GatherThrows
  \/ DryRunReport
  \/ WriteCreation
  \/ WriteUpdate
  \/ WriteNewFile
  \/ OpenManifest
  \/ OpenManifestFails
  \/ WriteManifest
  \/ UpdateGitignore
  \/ UpdatePackageJson
  \/ Finish
  \/ Exit
  \/ UserRemovesDir

SpecSwitch == InitDelete /\ [][NextSwitch]_vars

\* hydrate-verify, checkManifestDrift: the manifest paths missing on disk
checkManifestDrift(file, disk) ==
  IF file.state = "ok"
  THEN { p \in DOMAIN file.files : p \notin DOMAIN disk }
  ELSE {}

\* C26: after a real run with no write failure every path listed in the
\* committed manifest exists on disk, so the manifest-drift check of
\* hydrate-verify finds nothing missing, whatever the manifest and the target
\* were before the run.
C26_NoManifestDrift ==
  (Completed /\ ~options.dryRun /\ criticalFailures = <<>> /\ optionalFailures = <<>>) =>
    /\ manifestFile.state = "ok"
    /\ checkManifestDrift(manifestFile, files) = {}

----------------------------------------------------------------------------
(* C27: a --force run (without --yes, not a dry-run) that is declined at the
   confirmation prompt ends with nothing changed: no file or directory of the
   target, the target root and the cursor directory included, has been
   created or modified. *)
C27_DeclinedChangesNothing ==
  (pc = "done" /\ result = "aborted") => DiskUnchanged

----------------------------------------------------------------------------
(* The lock of placeholder-check.js                                        *)
(*                                                                         *)
(* Every file system call of acquireLock is a step of its own; processes   *)
(* started in the same directory interleave at these steps.  The age of    *)
(* the lock file is fresh (younger than LOCK_TIMEOUT_MS) or not.           *)

MaxStarts == 2

LockExists == lockFile # NoLock

At(p, where) == invocation[p].pc = where

Goto(p, where) == invocation' = [invocation EXCEPT ![p].pc = where]

\* runInit and the other helpers are not involved
LockFrame == UNCHANGED installVars /\ SideUnchangedBut("lock")

\* process.exit(status) from a process that has registered no cleanup
ExitWith(p, status) ==
  invocation' = [invocation EXCEPT ![p].pc = "exited", ![p].status = status]

\* node scripts/placeholder-check.js
StartCheck(p) ==
  /\ invocation[p].pc \in {"none", "exited"}
  /\ invocation[p].starts < MaxStarts
  /\ invocation' = [invocation EXCEPT ![p] = [pc |-> "exists", status |-> 0,
                                               starts |-> @.starts + 1]]
  /\ UNCHANGED <<lockFile, removals, wentStale>>
  /\ LockFrame

\* fs.existsSync(lockPath), source line 349
LockExistsSync(p) ==
  /\ At(p, "exists")
  /\ Goto(p, IF LockExists THEN "stat" ELSE "write")
  /\ UNCHANGED <<lockFile, removals, wentStale>>
  /\ LockFrame

\* fs.statSync(lockPath) and the age test, source lines 350-356; statSync
\* throws when the file is gone, and the uncaught exception ends the process
LockStatSync(p) ==
  /\ At(p, "stat")
  /\ IF ~LockExists THEN ExitWith(p, 1)
     ELSE IF lockFile.fresh THEN ExitWith(p, 1)
     ELSE Goto(p, "unlink")
  /\ UNCHANGED <<lockFile, removals, wentStale>>
  /\ LockFrame

\* the record of an unlink of the lock file by p
Removal(p) == [by |-> p, owner |-> lockFile.owner, fresh |-> lockFile.fresh]

\* fs.unlinkSync(lockPath) of a stale lock, source line 357
UnlinkStale(p) ==
  /\ At(p, "unlink")
  /\ IF LockExists
     THEN /\ removals' = removals \cup {Removal(p)}
          /\ lockFile' = NoLock
          /\ Goto(p, "write")
     ELSE /\ ExitWith(p, 1)
          /\ UNCHANGED <<lockFile, removals>>
  /\ UNCHANGED wentStale
  /\ LockFrame

\* fs.writeFileSync(lockPath, ...), which replaces a file that is there, and
\* the handlers, source lines 360-376
WriteLock(p) ==
  /\ At(p, "write")
  /\ lockFile' = [owner |-> p, fresh |-> TRUE]
  /\ Goto(p, "scan")
  /\ UNCHANGED <<removals, wentStale>>
  /\ LockFrame

\* cleanup, source lines 362-366
Cleanup(p) ==
  IF LockExists
  THEN /\ removals' = removals \cup {Removal(p)}
       /\ lockFile' = NoLock
  ELSE UNCHANGED <<lockFile, removals>>

\* main ends with process.exit(0) or process.exit(1); the 'exit' handler runs
ScanEnds(p) ==
  /\ At(p, "scan")
  /\ \E status \in {0, 1} : ExitWith(p, status)
  /\ Cleanup(p)
  /\ UNCHANGED wentStale
  /\ LockFrame

\* SIGINT or SIGTERM during the scan: cleanup, process.exit(1)
Interrupted(p) ==
  /\ At(p, "scan")
  /\ ExitWith(p, 1)
  /\ Cleanup(p)
  /\ UNCHANGED wentStale
  /\ LockFrame

\* SIGKILL: no handler runs
Killed(p) ==
  /\ invocation[p].pc \in {"exists", "stat", "unlink", "write", "scan"}
  /\ ExitWith(p, 137)
  /\ UNCHANGED <<lockFile, removals, wentStale>>
  /\ LockFrame

\* LOCK_TIMEOUT_MS go by since the lock file was written
LockAges ==
  /\ LockExists
  /\ lockFile.fresh
  /\ lockFile' = [lockFile EXCEPT !.fresh = FALSE]
  /\ wentStale' = TRUE
  /\ UNCHANGED <<invocation, removals>>
  /\ LockFrame

InitLock ==
  /\ NoTarget
  /\ SideIdleBut("lock")
  /\ LockIdle

NextLock ==
  \/ \E p \in Invocations : StartCheck(p)
  \/ \E p \in Invocations : LockExistsSync(p)
  \/ \E p \in Invocations : LockStatSync(p)
  \/ \E p \in Invocations : UnlinkStale(p)
  \/ \E p \in Invocations : WriteLock(p)
  \/ \E p \in Invocations : ScanEnds(p)
  \/ \E p \in Invocations : Interrupted(p)
  \/ \E p \in Invocations : Killed(p)
  \/ LockAges

SpecLock == InitLock /\ [][NextLock]_vars

\* C28: the lock gives mutual exclusion: however two invocations started in
\* the same directory interleave, while no stale lock exists at most one of
\* them is past lock acquisition and scanning.
C28_MutualExclusion ==
  ~wentStale =>
    \A p, q \in Invocations : (At(p, "scan") /\ At(q, "scan")) => p = q

\* C29: the lock file is removed only by the invocation that wrote it or by an
\* invocation that found it older than the stale timeout; no invocation
\* removes a fresh lock written by another invocation.
C29_OnlyOwnerRemovesFreshLock ==
  \A r \in removals : r.by = r.owner \/ ~r.fresh

----------------------------------------------------------------------------
(* The scripts added to package.json                                       *)
(*                                                                         *)
(* A scripts object maps the names it has to their commands; the command   *)
(* "" is the empty string.                                                 *)

\* the keys of newScripts, source lines 642-648
NewScriptNames ==
  {"ai-kit:verify", "docs:update", "docs:check", "docs:check:ci", "docs:verify-inline"}

\* the command newScripts has for the name
NewScript(key) == <<"node scripts", key>>

\* a script of the project the kit does not know
OwnScriptNames == {"test"}

\* what a project may have under a name: nothing to run, or a command of its own
OwnCommands == {"", "own command"}

\* the scripts objects of a project: under a name of the kit also the kit's
\* command, left there by an earlier install
ScriptObjects ==
  UNION { { scripts \in [names -> OwnCommands \cup { NewScript(k) : k \in names }] :
              \A key \in names :
                scripts[key] \in OwnCommands \/
                  (key \in NewScriptNames /\ scripts[key] = NewScript(key)) } :
            names \in SUBSET (NewScriptNames \cup OwnScriptNames) }

\* JavaScript truthiness of a string
Truthy(val) == val # ""

\* the loop over Object.entries(newScripts), source lines 650-658
MergeScripts(scripts) ==
  [key \in DOMAIN scripts \cup NewScriptNames |->
     IF key \in NewScriptNames /\ ~(key \in DOMAIN scripts /\ Truthy(scripts[key]))
     THEN NewScript(key)
     ELSE scripts[key]]

\* scriptsAdded, source lines 650-656
ScriptsAdded(scripts) ==
  \E key \in NewScriptNames : ~(key \in DOMAIN scripts /\ Truthy(scripts[key]))

InitPkg ==
  /\ NoTarget
  /\ SideIdleBut("pkg")
  /\ \E scripts \in ScriptObjects : packageJson = [scripts |-> scripts, writes |-> 0]
  /\ pkgBefore = NotRead

\* source lines 634-668, package.json present and parsed
MergePackageScripts ==
  /\ ~pkgBefore.read
  /\ pkgBefore' = [read |-> TRUE, scripts |-> packageJson.scripts]
  /\ packageJson' =
       IF ScriptsAdded(packageJson.scripts)
       THEN [scripts |-> MergeScripts(packageJson.scripts),
             writes |-> packageJson.writes + 1]
       ELSE packageJson
  /\ UNCHANGED installVars
  /\ SideUnchangedBut("pkg")

\* the process ends; the CLI is run again later
NextInstall ==
  /\ pkgBefore.read
  /\ pkgBefore' = NotRead
  /\ packageJson' = [packageJson EXCEPT !.writes = 0]
  /\ UNCHANGED installVars
  /\ SideUnchangedBut("pkg")

NextPkg == MergePackageScripts \/ NextInstall

SpecPkg == InitPkg /\ [][NextPkg]_vars

\* C30: updating package.json never changes or removes an existing script
\* entry: every script that had a value keeps it, only absent names are added,
\* and package.json is not rewritten when no name was added.
C30_ExistingScriptsKept ==
  pkgBefore.read =>
    /\ \A key \in DOMAIN pkgBefore.scripts :
         /\ key \in DOMAIN packageJson.scripts
         /\ packageJson.scripts[key] = pkgBefore.scripts[key]
    /\ packageJson.writes > 0 => DOMAIN packageJson.scripts # DOMAIN pkgBefore.scripts

====
